---- MODULE Spec2Model ----
(***************************************************************************)
(* The notebooks of applied-machine-learning as a state machine: a Jupyter *)
(* kernel per notebook, whose namespace the code cells read and write.     *)
(* Cells are transcribed statement by statement and run by a small         *)
(* interpreter of the Python they use.  NumPy / SciPy / scikit-learn calls *)
(* are operators on exact values: a float is a rational, inf, -inf, nan,   *)
(* or `unk' (a float whose value the model does not compute).              *)
(***************************************************************************)
EXTENDS Integers, Sequences, FiniteSets

(***************************************************************************)
(* The bounds: the number of cells run in one kernel session, and the      *)
(* number of entries (rows times columns) of the matrices drawn for the    *)
(* linear-algebra cells, and the number of elements of the tensors drawn   *)
(* for the element-wise cells.                                             *)
(***************************************************************************)
MaxRuns == 2
MaxSize == 9
MaxElems == 2

(***************************************************************************)
(* Floats.                                                                 *)
(***************************************************************************)
Abs(i) == IF i < 0 THEN -i ELSE i

Sgn(i) == IF i < 0 THEN -1 ELSE IF i > 0 THEN 1 ELSE 0

Min(a, b) == IF a < b THEN a ELSE b

\* The function f on 1..n as a sequence.
Vec(f) == f \o <<>>

RECURSIVE Gcd(_, _)
Gcd(a, b) == IF b = 0 THEN a ELSE Gcd(b, a % b)

Num(n, d) ==
  LET g == Gcd(Abs(n), Abs(d))
  IN [k |-> "num", n |-> (Sgn(d) * n) \div g, d |-> Abs(d) \div g]

\* A float is a rational n / d, an infinity, nan, or unknown: a value the
\* model does not compute.  Any operation on an unknown value is unknown.
F(i) == [k |-> "num", n |-> i, d |-> 1]
Inf == [k |-> "inf", n |-> 1, d |-> 0]
NInf == [k |-> "inf", n |-> -1, d |-> 0]
NaN == [k |-> "nan", n |-> 0, d |-> 0]
Unk == [k |-> "unk", n |-> 0, d |-> 0]

IsNum(x) == x.k = "num"

FSign(x) == Sgn(x.n)

FAdd(x, y) ==
  IF x.k = "unk" \/ y.k = "unk" THEN Unk
  ELSE IF x.k = "nan" \/ y.k = "nan" THEN NaN
  ELSE IF x.k = "inf" /\ y.k = "inf" THEN (IF x.n = y.n THEN x ELSE NaN)
  ELSE IF x.k = "inf" THEN x
  ELSE IF y.k = "inf" THEN y
  ELSE Num(x.n * y.d + y.n * x.d, x.d * y.d)

FNeg(x) == IF x.k = "num" \/ x.k = "inf" THEN [x EXCEPT !.n = -x.n] ELSE x

FSub(x, y) == FAdd(x, FNeg(y))

FMul(x, y) ==
  IF x.k = "unk" \/ y.k = "unk" THEN Unk
  ELSE IF x.k = "nan" \/ y.k = "nan" THEN NaN
  ELSE IF x.k = "inf" \/ y.k = "inf"
    THEN (IF FSign(x) * FSign(y) = 0 THEN NaN
          ELSE IF FSign(x) * FSign(y) > 0 THEN Inf ELSE NInf)
  ELSE Num(x.n * y.n, x.d * y.d)

\* IEEE division as NumPy does it on float arrays: x / 0 is +-inf (with a
\* RuntimeWarning, not an exception) and 0 / 0 is nan.
FDiv(x, y) ==
  IF x.k = "unk" \/ y.k = "unk" THEN Unk
  ELSE IF x.k = "nan" \/ y.k = "nan" THEN NaN
  ELSE IF x.k = "inf" /\ y.k = "inf" THEN NaN
  ELSE IF x.k = "inf" THEN (IF y.n < 0 THEN FNeg(x) ELSE x)
  ELSE IF y.k = "inf" THEN F(0)
  ELSE IF y.n = 0
    THEN (IF x.n = 0 THEN NaN ELSE IF x.n > 0 THEN Inf ELSE NInf)
  ELSE Num(x.n * y.d, x.d * y.n)

\* A variant of the integer division that truncates towards zero, as C does.
IFloorDiv_truncating(x, y) ==
  IF y.n = 0 THEN F(0)
  ELSE F(Sgn(x.n) * Sgn(y.n) * (Abs(x.n) \div Abs(y.n)))

\* Floor division of two integers of an integer array; NumPy gives 0 (and a
\* RuntimeWarning) for a zero divisor.
IFloorDiv(x, y) ==
  IF y.n = 0 THEN F(0)
  ELSE IF y.n > 0 THEN F(x.n \div y.n)
  ELSE F((-x.n) \div (-y.n))

(***************************************************************************)
(* Values of the interpreter.                                              *)
(***************************************************************************)
Unbound == [k |-> "unbound"]
None == [k |-> "none"]
PyInt(i) == [k |-> "int", n |-> i]
PyFloat(x) == [k |-> "float", x |-> x]
PyTuple(items) == [k |-> "tuple", items |-> Vec(items)]
PyList(items) == [k |-> "list", items |-> Vec(items)]
Lib(id) == [k |-> "lib", id |-> id]
Raise(e) == [k |-> "raise", err |-> e]

IsRaise(v) == v.k = "raise"

\* An ndarray: dtype "int" or "float", shape a tuple of naturals, data the
\* nested sequences of floats (one level per axis).
RECURSIVE Nested(_, _)
Nested(x, depth) ==
  IF depth = 0 THEN x ELSE Vec([i \in 1..Len(x) |-> Nested(x[i], depth - 1)])

NdArray(dtype, shape, data) ==
  [k |-> "ndarray", dtype |-> dtype, shape |-> shape, data |-> Nested(data, Len(shape))]

IsArray(v) == v.k = "ndarray"

Ndim(a) == Len(a.shape)

(***************************************************************************)
(* NumPy arrays.                                                           *)
(***************************************************************************)
Rows(a) == a.shape[1]
Cols(a) == a.shape[2]

\* array(list): the nested list literal becomes an ndarray; the dtype is
\* float as soon as one element is a Python float.
RECURSIVE ListShape(_)
ListShape(l) ==
  IF l.k = "list"
    THEN <<Len(l.items)>> \o (IF Len(l.items) = 0 THEN <<>> ELSE ListShape(l.items[1]))
    ELSE <<>>

RECURSIVE ListHasFloat(_)
ListHasFloat(l) ==
  IF l.k = "list" THEN \E i \in 1..Len(l.items) : ListHasFloat(l.items[i])
  ELSE l.k = "float"

RECURSIVE ListData(_)
ListData(l) ==
  IF l.k = "list" THEN [i \in 1..Len(l.items) |-> ListData(l.items[i])]
  ELSE IF l.k = "int" THEN F(l.n) ELSE l.x

array(l) ==
  NdArray(IF ListHasFloat(l) THEN "float" ELSE "int", ListShape(l), ListData(l))

\* zeros(shape): a float array of the given shape (a tuple of two ints in
\* every call of the notebooks).
zeros(shape) ==
  IF shape.k = "tuple" /\ Len(shape.items) = 2
       /\ \A i \in 1..2 : shape.items[i].k = "int"
    THEN LET m == shape.items[1].n
             n == shape.items[2].n
         IN NdArray("float", <<m, n>>, [i \in 1..m |-> [j \in 1..n |-> F(0)]])
    ELSE Raise("TypeError")

\* diag(v): a 1-D array of length k becomes the k x k matrix with v on the
\* diagonal; a 2-D array gives its diagonal as a 1-D array.
diag(v) ==
  IF ~IsArray(v) THEN Raise("ValueError")
  ELSE IF Ndim(v) = 1
    THEN LET k == v.shape[1]
         IN NdArray(v.dtype, <<k, k>>,
                    [i \in 1..k |-> [j \in 1..k |-> IF i = j THEN v.data[i] ELSE F(0)]])
  ELSE IF Ndim(v) = 2
    THEN LET k == Min(Rows(v), Cols(v))
         IN NdArray(v.dtype, <<k>>, [i \in 1..k |-> v.data[i][i]])
  ELSE Raise("ValueError")

\* ndarray.T of a matrix.
transpose(a) ==
  IF Ndim(a) = 2
    THEN NdArray(a.dtype, <<Cols(a), Rows(a)>>,
                 [j \in 1..Cols(a) |-> [i \in 1..Rows(a) |-> a.data[i][j]]])
    ELSE a

RECURSIVE SumTo(_, _)
SumTo(f, n) == IF n = 0 THEN F(0) ELSE FAdd(SumTo(f, n - 1), f[n])

ResultDtype(a, b) == IF a.dtype = "int" /\ b.dtype = "int" THEN "int" ELSE "float"

\* a.dot(b) of two matrices: the number of columns of a must be the number
\* of rows of b, otherwise NumPy raises ValueError (shapes not aligned).
Unknown(a) == \A i \in 1..Rows(a) : \A j \in 1..Cols(a) : a.data[i][j].k = "unk"

dot(a, b) ==
  IF ~(IsArray(a) /\ IsArray(b)) THEN Raise("TypeError")
  ELSE IF Ndim(a) # 2 \/ Ndim(b) # 2 THEN Raise("ValueError")
  ELSE IF Cols(a) # Rows(b) THEN Raise("ValueError")
  \* every sum has a term with an unknown factor
  ELSE IF Cols(a) > 0 /\ (Unknown(a) \/ Unknown(b))
    THEN NdArray(ResultDtype(a, b), <<Rows(a), Cols(b)>>,
           [i \in 1..Rows(a) |-> [j \in 1..Cols(b) |-> Unk]])
  ELSE NdArray(ResultDtype(a, b), <<Rows(a), Cols(b)>>,
         [i \in 1..Rows(a) |-> [j \in 1..Cols(b) |->
            SumTo([l \in 1..Cols(a) |-> FMul(a.data[i][l], b.data[l][j])], Cols(a))]])

\* a[:r, :c] on a matrix; a stop of -1 stands for the bare `:'.  A stop
\* beyond the axis is clipped to the axis, as Python slices are.
Clip(stop, len) == IF stop < 0 \/ stop > len THEN len ELSE stop

\* A variant of the slice that selects everything.
slice_all(a, r, c) == IF ~IsArray(a) \/ Ndim(a) # 2 THEN Raise("IndexError") ELSE a

slice(a, r, c) ==
  IF ~IsArray(a) \/ Ndim(a) # 2 THEN Raise("IndexError")
  ELSE LET m == Clip(r, Rows(a))
           n == Clip(c, Cols(a))
       IN NdArray(a.dtype, <<m, n>>, [i \in 1..m |-> [j \in 1..n |-> a.data[i][j]]])

\* a[:r, :c] = v: v is broadcast to the shape of the (clipped) slice, an
\* axis of v of length 1 being repeated; any other mismatch is a ValueError.
Broadcastable(v, m, n) ==
  /\ Ndim(v) = 2
  /\ Rows(v) \in {1, m}
  /\ Cols(v) \in {1, n}

\* A variant of the slice assignment that leaves the target as it is.
setslice_dropped(a, r, c, v) == a

setslice(a, r, c, v) ==
  IF ~IsArray(a) \/ Ndim(a) # 2 \/ ~IsArray(v) THEN Raise("TypeError")
  ELSE LET m == Clip(r, Rows(a))
           n == Clip(c, Cols(a))
       IN IF ~Broadcastable(v, m, n) THEN Raise("ValueError")
          ELSE NdArray(a.dtype, a.shape,
                 [i \in 1..Rows(a) |-> [j \in 1..Cols(a) |->
                    IF i <= m /\ j <= n
                      THEN v.data[IF Rows(v) = 1 THEN 1 ELSE i][IF Cols(v) = 1 THEN 1 ELSE j]
                      ELSE a.data[i][j]]])

(***************************************************************************)
(* Singular-value decomposition.  The factors are computed exactly for the *)
(* matrices that have one: integer matrices with at most one non-zero      *)
(* entry in each row and in each column, whose singular values are the     *)
(* magnitudes of the entries and whose singular vectors are unit vectors.  *)
(* The sign of each pair of singular vectors is not fixed by the           *)
(* decomposition: sg chooses it.  For any other matrix the factors have    *)
(* the right shapes and unknown entries.                                   *)
(***************************************************************************)
IsIntegral(x) == x.k = "num" /\ x.d = 1

HasExactSvd(a) ==
  /\ \A i \in 1..Rows(a) : \A j \in 1..Cols(a) : IsIntegral(a.data[i][j])
  /\ \A i \in 1..Rows(a) : Cardinality({j \in 1..Cols(a) : a.data[i][j].n # 0}) <= 1
  /\ \A j \in 1..Cols(a) : Cardinality({i \in 1..Rows(a) : a.data[i][j].n # 0}) <= 1

\* The positions of the non-zero entries, largest magnitude first.
NonZero(a) == {p \in (1..Rows(a)) \X (1..Cols(a)) : a.data[p[1]][p[2]].n # 0}

Before(a, p, q) ==
  \/ Abs(a.data[p[1]][p[2]].n) > Abs(a.data[q[1]][q[2]].n)
  \/ Abs(a.data[p[1]][p[2]].n) = Abs(a.data[q[1]][q[2]].n) /\ p[1] < q[1]

Pivot(a, i) ==
  CHOOSE p \in NonZero(a) : Cardinality({q \in NonZero(a) : Before(a, q, p)}) = i - 1

\* The j-th smallest element of a set of naturals.
Nth(S, j) == CHOOSE x \in S : Cardinality({y \in S : y < x}) = j - 1

\* The choices of sign svd has on a: one per non-zero singular value.
SignChoices(a) ==
  IF IsArray(a) /\ Ndim(a) = 2 /\ HasExactSvd(a)
    THEN [1..Cardinality(NonZero(a)) -> {1, -1}]
    ELSE {<<>>}

UnkMatrix(m, n) == NdArray("float", <<m, n>>, [i \in 1..m |-> [j \in 1..n |-> Unk]])

UnkVector(n) == NdArray("float", <<n>>, [i \in 1..n |-> Unk])

\* The shapes of the factors with full_matrices=False.
SvdShapes_economy(m, n) == <<(<<m, Min(m, n)>>), (<<Min(m, n)>>), (<<Min(m, n), n>>)>>

\* The shapes of the factors U, s, VT of an m x n matrix: the cells call
\* svd(A) with full_matrices left at its default, True.
SvdShapes(m, n) == <<(<<m, m>>), (<<Min(m, n)>>), (<<n, n>>)>>

\* svd(a) of scipy.linalg and of numpy.linalg, full_matrices=True: for an
\* m x n matrix the tuple (U, s, VT) with U m x m, s a vector of min(m, n)
\* singular values in descending order, VT n x n.
svd(a, sg) ==
  IF ~IsArray(a) \/ Ndim(a) # 2 THEN Raise("ValueError")
  ELSE LET m == Rows(a)
           n == Cols(a)
           shapes == SvdShapes(m, n)
       IN IF ~HasExactSvd(a)
            THEN PyTuple(<<UnkMatrix(shapes[1][1], shapes[1][2]), UnkVector(shapes[2][1]),
                           UnkMatrix(shapes[3][1], shapes[3][2])>>)
            ELSE
              LET r == Cardinality(NonZero(a))
                  piv == Vec([i \in 1..r |-> Pivot(a, i)])
                  freeRows == (1..m) \ {piv[i][1] : i \in 1..r}
                  freeCols == (1..n) \ {piv[i][2] : i \in 1..r}
                  val == Vec([i \in 1..r |-> a.data[piv[i][1]][piv[i][2]].n])
                  \* the row of the unit vector that is column i of U, the
                  \* column of the unit vector that is row i of VT
                  urow == Vec([i \in 1..m |->
                            IF i <= r THEN piv[i][1] ELSE Nth(freeRows, i - r)])
                  vcol == Vec([i \in 1..n |->
                            IF i <= r THEN piv[i][2] ELSE Nth(freeCols, i - r)])
                  U == [x \in 1..shapes[1][1] |-> [i \in 1..shapes[1][2] |->
                          IF x # urow[i] THEN F(0)
                          ELSE IF i <= r THEN F(sg[i]) ELSE F(1)]]
                  s == [i \in 1..shapes[2][1] |-> IF i <= r THEN F(Abs(val[i])) ELSE F(0)]
                  VT == [i \in 1..shapes[3][1] |-> [y \in 1..shapes[3][2] |->
                          IF y # vcol[i] THEN F(0)
                          ELSE IF i <= r THEN F(sg[i] * Sgn(val[i])) ELSE F(1)]]
              IN PyTuple(<<NdArray("float", shapes[1], U),
                           NdArray("float", shapes[2], s),
                           NdArray("float", shapes[3], VT)>>)

\* numpy.linalg.pinv(a): from the SVD of a, the reciprocal of every
\* singular value above the cutoff rcond * max(s), zero for the others, and
\* the product V . diag . U^T.  On integer singular values the cutoff
\* (rcond = 1e-15) separates exactly the non-zero ones.
AboveCutoff(x) == x.k = "num" /\ x.n # 0

pinv(a, sg) ==
  LET m == Rows(a)
      n == Cols(a)
      k == Min(m, n)
      Product(U, s, VT) ==
        LET rec == Vec([i \in 1..k |->
                      IF s.data[i].k = "unk" THEN Unk
                      ELSE IF AboveCutoff(s.data[i]) THEN FDiv(F(1), s.data[i])
                      ELSE F(0)])
        IN NdArray("float", <<n, m>>,
             [j \in 1..n |-> [i \in 1..m |->
                SumTo([l \in 1..k |->
                   FMul(VT.data[l][j], FMul(rec[l], U.data[i][l]))], k)]])
      Of(f) == IF IsRaise(f) THEN f ELSE Product(f.items[1], f.items[2], f.items[3])
      usv == svd(a, sg)
  IN Of(usv)

(***************************************************************************)
(* Element-wise arithmetic of arrays and the tensor product.               *)
(***************************************************************************)
\* A variant of the scalar operations whose division multiplies.
ScalarOp_product(op, x, y, intdiv) ==
  CASE op = "+" -> FAdd(x, y)
    [] op = "-" -> FSub(x, y)
    [] op = "*" -> FMul(x, y)
    [] op = "/" -> FMul(x, y)

\* One scalar operation of a binary operator; py is the major version of
\* the kernel's Python: in Python 2 the `/' of two integers is the floor
\* division and the result stays an integer.
ScalarOp(op, x, y, intdiv) ==
  CASE op = "+" -> FAdd(x, y)
    [] op = "-" -> FSub(x, y)
    [] op = "*" -> FMul(x, y)
    [] op = "/" -> IF intdiv THEN IFloorDiv(x, y) ELSE FDiv(x, y)

\* A variant of the element-wise map that takes both operands from the left
\* array.
RECURSIVE MapData_left(_, _, _, _, _)
MapData_left(op, x, y, depth, intdiv) ==
  IF depth = 0 THEN ScalarOp(op, x, x, intdiv)
  ELSE [i \in 1..Len(x) |-> MapData_left(op, x[i], y[i], depth - 1, intdiv)]

RECURSIVE MapData(_, _, _, _, _)
MapData(op, x, y, depth, intdiv) ==
  IF depth = 0 THEN ScalarOp(op, x, y, intdiv)
  ELSE [i \in 1..Len(x) |-> MapData(op, x[i], y[i], depth - 1, intdiv)]

RECURSIVE MapScalarLeft(_, _, _, _)
MapScalarLeft(op, x, y, depth) ==
  IF depth = 0 THEN ScalarOp(op, x, y, FALSE)
  ELSE [i \in 1..Len(y) |-> MapScalarLeft(op, x, y[i], depth - 1)]

\* a op b for two arrays of the same shape, or a Python float and an array.
binop(op, a, b, py) ==
  IF op \notin {"+", "-", "*", "/"} THEN Raise("TypeError")
  ELSE IF IsArray(a) /\ IsArray(b)
    THEN IF a.shape # b.shape THEN Raise("ValueError")
         ELSE LET ints == a.dtype = "int" /\ b.dtype = "int"
                  intdiv == ints /\ op = "/" /\ py = 2
              IN NdArray(IF ints /\ (op # "/" \/ py = 2) THEN "int" ELSE "float",
                         a.shape, MapData(op, a.data, b.data, Ndim(a), intdiv))
  ELSE IF a.k = "float" /\ IsArray(b)
    THEN NdArray("float", b.shape, MapScalarLeft(op, a.x, b.data, Ndim(b)))
  ELSE Raise("TypeError")

\* tensordot(a, b, axes=0) of two vectors: the outer product.
tensordot(a, b, axes) ==
  IF ~(IsArray(a) /\ IsArray(b)) THEN Raise("TypeError")
  ELSE IF axes # 0 \/ Ndim(a) # 1 \/ Ndim(b) # 1 THEN Raise("ValueError")
  ELSE NdArray(ResultDtype(a, b), <<a.shape[1], b.shape[1]>>,
         [i \in 1..a.shape[1] |-> [j \in 1..b.shape[1] |-> FMul(a.data[i], b.data[j])]])

(***************************************************************************)
(* scikit-learn objects.                                                   *)
(***************************************************************************)
\* A variant of the searches with two workers.
n_jobs_two == 1 + 1

n_jobs == 1
n_iter == 100
n_elements == 2

Opaque(id) == [k |-> "opaque", id |-> id]

Ridge == [k |-> "Ridge", alpha |-> F(1)]

\* GridSearchCV(estimator, param_grid) and RandomizedSearchCV(estimator,
\* param_distributions, n_iter): n_jobs is left at its default.
SearchCV(class, estimator, params, candidates) ==
  [k |-> class, estimator |-> estimator, params |-> params, n_jobs |-> n_jobs,
   candidates |-> candidates, fitted |-> FALSE]

IsSearch(v) == v.k \in {"GridSearchCV", "RandomizedSearchCV"}

\* The fitted search: refit=True keeps the best estimator, whose alpha and
\* score depend on the data and are not computed.
Fitted(search) == [search EXCEPT !.fitted = TRUE]

TruncatedSVD(n_components) ==
  [k |-> "TruncatedSVD", n_components |-> n_components, components |-> None]

\* TruncatedSVD.fit(X): components_ are the first n_components rows of V^T.
TruncatedSVD_fit(self, X, sg) ==
  LET Of(f) ==
        IF IsRaise(f) THEN f
        ELSE [self EXCEPT !.components = slice(f.items[3], self.n_components, -1)]
      usv == svd(X, sg)
  IN Of(usv)

\* A variant of transform that returns the components themselves.
TruncatedSVD_transform_components(self, X) ==
  IF self.components.k = "none" THEN Raise("NotFittedError")
  ELSE self.components

\* TruncatedSVD.transform(X): X . components_^T.
TruncatedSVD_transform(self, X) ==
  IF self.components.k = "none" THEN Raise("NotFittedError")
  ELSE dot(X, transpose(self.components))

(***************************************************************************)
(* Expressions and statements of the cells.                                *)
(***************************************************************************)
N(x) == [e |-> "name", id |-> x]
K(v) == [e |-> "const", v |-> v]
In(i) == [e |-> "input", i |-> i]
At(o, a) == [e |-> "attr", o |-> o, a |-> a]
Ix(o, i) == [e |-> "index", o |-> o, i |-> i]
Sl(o, r, c) == [e |-> "slice", o |-> o, r |-> r, c |-> c]
Call(f, args) == [e |-> "call", f |-> f, args |-> args, kw |-> <<>>]
CallKw(f, args, kw) == [e |-> "call", f |-> f, args |-> args, kw |-> kw]
Bin(op, l, r) == [e |-> "bin", op |-> op, l |-> l, r |-> r]
Tup(items) == [e |-> "tuple", items |-> items]
Dict(items) == [e |-> "dict", items |-> items]
Ellipsis == K([k |-> "ellipsis"])
All == K(None)

\* A variant of the import statement: a cell that leaves its imports
\* to the cells before it.
Import_left_out(name, id) == [s |-> "expr", e |-> [e |-> "const", v |-> None]]

Import(name, id) == [s |-> "import", name |-> name, id |-> id]
ImportModule(name, id) == [s |-> "module", name |-> name, id |-> id]
Assign(name, e) == [s |-> "assign", name |-> name, e |-> e]
Unpack(names, e) == [s |-> "unpack", names |-> names, e |-> e]
SetSlice(name, r, c, e) == [s |-> "setslice", name |-> name, r |-> r, c |-> c, e |-> e]
Expr(e) == [s |-> "expr", e |-> e]
print_(e) == [s |-> "print", e |-> e]

Builtins == {"dict"}

\* The attributes the cells read.
GetAttr(o, a) ==
  CASE IsArray(o) /\ a = "shape" -> PyTuple([i \in 1..Len(o.shape) |-> PyInt(o.shape[i])])
    [] IsArray(o) /\ a = "T" -> transpose(o)
    [] IsArray(o) /\ a = "dot" -> [k |-> "method", self |-> o, name |-> "dot"]
    [] o.k = "module" /\ o.id = "numpy" /\ a = "array" -> Lib("numpy.array")
    [] o.k = "module" /\ o.id = "sklearn.datasets" /\ a = "load_diabetes" ->
         Lib("sklearn.datasets.load_diabetes")
    [] o.k = "Bunch" /\ a \in {"data", "target"} -> Opaque(a)
    [] o.k = "TruncatedSVD" /\ a \in {"fit", "transform"} ->
         [k |-> "method", self |-> o, name |-> a]
    [] IsSearch(o) /\ a = "fit" -> [k |-> "method", self |-> o, name |-> a]
    [] IsSearch(o) /\ a = "best_score_" ->
         IF o.fitted THEN PyFloat(Unk) ELSE Raise("AttributeError")
    [] IsSearch(o) /\ a = "best_estimator_" ->
         IF o.fitted THEN [k |-> "Ridge", alpha |-> Unk] ELSE Raise("AttributeError")
    [] o.k = "Ridge" /\ a = "alpha" -> PyFloat(o.alpha)
    [] OTHER -> Raise("AttributeError")

KwHas(kw, name) == \E i \in 1..Len(kw) : kw[i][1] = name

KwGet(kw, name) == kw[CHOOSE i \in 1..Len(kw) : kw[i][1] = name][2]

\* The number of candidates of a grid: the length of its only parameter.
GridSize(grid) ==
  IF grid.k = "dict" /\ Len(grid.items) = 1 /\ IsArray(grid.items[1][2])
    THEN grid.items[1][2].shape[1] ELSE 0

\* A call of a library function, class or bound method with evaluated
\* positional arguments args and keyword arguments kw.
Apply(f, args, kw, sg) ==
  IF f.k = "lib" THEN
    CASE f.id = "numpy.array" /\ Len(args) = 1 ->
           IF args[1].k = "list" THEN array(args[1]) ELSE Raise("TypeError")
      [] f.id \in {"scipy.linalg.svd", "numpy.linalg.svd"} /\ Len(args) = 1 -> svd(args[1], sg)
      [] f.id = "numpy.zeros" /\ Len(args) = 1 -> zeros(args[1])
      [] f.id = "numpy.diag" /\ Len(args) = 1 -> diag(args[1])
      [] f.id = "numpy.dot" /\ Len(args) = 2 -> dot(args[1], args[2])
      [] f.id = "numpy.linalg.pinv" /\ Len(args) = 1 ->
           IF IsArray(args[1]) /\ Ndim(args[1]) = 2 THEN pinv(args[1], sg)
           ELSE Raise("LinAlgError")
      [] f.id = "numpy.tensordot" /\ Len(args) = 2 /\ KwHas(kw, "axes") ->
           tensordot(args[1], args[2], KwGet(kw, "axes").n)
      [] f.id = "sklearn.decomposition.TruncatedSVD" /\ KwHas(kw, "n_components") ->
           TruncatedSVD(KwGet(kw, "n_components").n)
      [] f.id = "sklearn.datasets.load_diabetes" /\ Len(args) = 0 -> [k |-> "Bunch"]
      [] f.id = "sklearn.linear_model.Ridge" /\ Len(args) = 0 -> Ridge
      [] f.id = "scipy.stats.uniform" /\ Len(args) = 0 -> [k |-> "rv_frozen"]
      [] f.id = "dict" -> [k |-> "dict", items |-> kw]
      [] f.id = "sklearn.model_selection.GridSearchCV"
           /\ KwHas(kw, "estimator") /\ KwHas(kw, "param_grid") ->
           SearchCV("GridSearchCV", KwGet(kw, "estimator"), KwGet(kw, "param_grid"),
                    GridSize(KwGet(kw, "param_grid")))
      [] f.id = "sklearn.model_selection.RandomizedSearchCV"
           /\ KwHas(kw, "estimator") /\ KwHas(kw, "param_distributions")
           /\ KwHas(kw, "n_iter") ->
           SearchCV("RandomizedSearchCV", KwGet(kw, "estimator"),
                    KwGet(kw, "param_distributions"), KwGet(kw, "n_iter").n)
      [] OTHER -> Raise("TypeError")
  ELSE IF f.k = "method" THEN
    CASE f.name = "dot" /\ Len(args) = 1 -> dot(f.self, args[1])
      [] f.name = "fit" /\ f.self.k = "TruncatedSVD" /\ Len(args) = 1 ->
           TruncatedSVD_fit(f.self, args[1], sg)
      [] f.name = "transform" /\ Len(args) = 1 -> TruncatedSVD_transform(f.self, args[1])
      [] f.name = "fit" /\ IsSearch(f.self) /\ Len(args) = 2 -> Fitted(f.self)
      [] OTHER -> Raise("TypeError")
  ELSE Raise("TypeError")

(***************************************************************************)
(* Evaluation of an expression in the context c: the kernel's namespace    *)
(* c.ns, the literals c.inp of the cell, the sign choice c.sg of the       *)
(* decompositions and the Python version c.py.  The result is the value    *)
(* (or the exception raised) and the names looked up, in Python's order of *)
(* evaluation: nothing is evaluated after the first exception.             *)
(***************************************************************************)
Res(v, reads) == [v |-> v, reads |-> reads]

Lookup(x, c) ==
  IF c.ns[x].k # "unbound" THEN c.ns[x]
  ELSE IF x \in Builtins THEN Lib(x)
  ELSE Raise("NameError")

RECURSIVE Eval(_, _)
RECURSIVE EvalSeq(_, _, _)
RECURSIVE EvalKw(_, _, _)

\* The values of the expressions es[i..], left to right.
EvalSeq(es, i, c) ==
  IF i > Len(es) THEN [vs |-> <<>>, reads |-> {}, raised |-> FALSE, v |-> None]
  ELSE LET Cons(h, t) ==
             [vs |-> <<h.v>> \o t.vs, reads |-> h.reads \cup t.reads,
              raised |-> t.raised, v |-> t.v]
           After(h) ==
             IF IsRaise(h.v)
               THEN [vs |-> <<>>, reads |-> h.reads, raised |-> TRUE, v |-> h.v]
               ELSE LET tail == EvalSeq(es, i + 1, c) IN Cons(h, tail)
           head == Eval(es[i], c)
       IN After(head)

EvalKw(kw, i, c) ==
  IF i > Len(kw) THEN [vs |-> <<>>, reads |-> {}, raised |-> FALSE, v |-> None]
  ELSE LET Cons(h, t) ==
             [vs |-> <<(<<kw[i][1], h.v>>)>> \o t.vs, reads |-> h.reads \cup t.reads,
              raised |-> t.raised, v |-> t.v]
           After(h) ==
             IF IsRaise(h.v)
               THEN [vs |-> <<>>, reads |-> h.reads, raised |-> TRUE, v |-> h.v]
               ELSE LET tail == EvalKw(kw, i + 1, c) IN Cons(h, tail)
           head == Eval(kw[i][2], c)
       IN After(head)

\* The stop of a slice: the bare `:' or an integer.
SliceStop(v) == IF v.k = "int" THEN v.n ELSE -1

Eval(e, c) ==
  CASE e.e = "name" -> Res(Lookup(e.id, c), {e.id})
    [] e.e = "const" -> Res(e.v, {})
    [] e.e = "input" -> Res(c.inp[e.i], {})
    [] e.e = "attr" ->
         LET o == Eval(e.o, c)
         IN IF IsRaise(o.v) THEN o ELSE Res(GetAttr(o.v, e.a), o.reads)
    [] e.e = "index" ->
         LET o == Eval(e.o, c)
         IN IF IsRaise(o.v) THEN o
            ELSE IF o.v.k # "tuple" THEN Res(Raise("TypeError"), o.reads)
            ELSE IF e.i + 1 > Len(o.v.items) THEN Res(Raise("IndexError"), o.reads)
            ELSE Res(o.v.items[e.i + 1], o.reads)
    [] e.e = "slice" ->
         LET t == EvalSeq(<<e.o, e.r, e.c>>, 1, c)
         IN IF t.raised THEN Res(t.v, t.reads)
            ELSE Res(slice(t.vs[1], SliceStop(t.vs[2]), SliceStop(t.vs[3])), t.reads)
    [] e.e = "tuple" ->
         LET t == EvalSeq(e.items, 1, c)
         IN IF t.raised THEN Res(t.v, t.reads) ELSE Res(PyTuple(t.vs), t.reads)
    [] e.e = "dict" ->
         LET t == EvalKw(e.items, 1, c)
         IN IF t.raised THEN Res(t.v, t.reads)
            ELSE Res([k |-> "dict", items |-> t.vs], t.reads)
    [] e.e = "bin" ->
         LET t == EvalSeq(<<e.l, e.r>>, 1, c)
         IN IF t.raised THEN Res(t.v, t.reads)
            ELSE Res(binop(e.op, t.vs[1], t.vs[2], c.py), t.reads)
    [] e.e = "call" ->
         \* the callee, the positional arguments, then the keyword arguments
         LET t == EvalSeq(<<e.f>> \o e.args, 1, c)
         IN IF t.raised THEN Res(t.v, t.reads)
            ELSE LET kw == EvalKw(e.kw, 1, c)
                 IN IF kw.raised THEN Res(kw.v, t.reads \cup kw.reads)
                    ELSE Res(Apply(t.vs[1], Tail(t.vs), kw.vs, c.sg),
                             t.reads \cup kw.reads)

(***************************************************************************)
(* Execution of the statements of a cell.  The interpreter state st holds  *)
(* the namespace ns, the index pc of the next statement, the printed output out, the exception err,    *)
(* the names own bound by this run of the cell and the names ext the run   *)
(* looked up without having bound them itself.                             *)
(***************************************************************************)
Bind(ns, name, v) == [ns EXCEPT ![name] = v]

Ctx(st, inp, sg, py) == [ns |-> st.ns, inp |-> inp, sg |-> sg, py |-> py]

\* The names of reads this run has not bound itself (a builtin that no
\* cell has rebound is not a name of the namespace).
External(reads, st) ==
  {x \in reads : x \notin st.own /\ ~(st.ns[x].k = "unbound" /\ x \in Builtins)}

\* A variant in which the exception is recorded and the cell goes on.
Fail_swallowed(st, err, reads) ==
  [st EXCEPT !.err = err, !.pc = @ + 1, !.ext = @ \cup External(reads, st)]

Fail(st, err, reads) ==
  [st EXCEPT !.status = "error", !.err = err, !.ext = @ \cup External(reads, st)]

Advance(st, ns, own, reads) ==
  [st EXCEPT !.ns = ns, !.pc = @ + 1, !.own = own, !.ext = @ \cup External(reads, st)]

RECURSIVE BindAll(_, _, _, _)
BindAll(ns, names, vs, i) ==
  IF i > Len(names) THEN ns
  ELSE BindAll(Bind(ns, names[i], vs[i]), names, vs, i + 1)

\* x.fit(...) as a statement, x a name.
IsFit(stmt) ==
  /\ stmt.s = "expr"
  /\ stmt.e.e = "call"
  /\ stmt.e.f.e = "attr"
  /\ stmt.e.f.a = "fit"
  /\ stmt.e.f.o.e = "name"

\* The expressions a statement evaluates, in their order of evaluation:
\* of a slice assignment the right-hand side first, then the target and
\* its stops.
Evaluated(stmt) ==
  CASE stmt.s \in {"assign", "unpack", "expr", "print"} -> <<stmt.e>>
    [] stmt.s = "setslice" -> <<stmt.e, N(stmt.name), stmt.r, stmt.c>>
    [] OTHER -> <<>>

\* One statement.  An exception is not handled by any cell: it ends the run.
\* The fit of a hyperparameter search suspends the cell (status "fitting")
\* until its tasks have run; the statement is then executed with the
\* status "fitted" and the cell goes on.
ExecStmt(stmt, st, inp, sg, py) ==
  LET Store(v, reads) ==
        IF IsRaise(v) THEN Fail(st, v.err, reads)
        ELSE Advance(st, Bind(st.ns, stmt.name, v), st.own, reads)
      Of(r) ==
        IF r.raised THEN Fail(st, r.v.err, r.reads)
        ELSE CASE stmt.s = "import" ->
                    Advance(st, Bind(st.ns, stmt.name, Lib(stmt.id)),
                            st.own \cup {stmt.name}, {})
               [] stmt.s = "module" ->
                    Advance(st, Bind(st.ns, stmt.name, [k |-> "module", id |-> stmt.id]),
                            st.own \cup {stmt.name}, {})
               [] stmt.s = "assign" ->
                    Advance(st, Bind(st.ns, stmt.name, r.vs[1]),
                            st.own \cup {stmt.name}, r.reads)
               [] stmt.s = "unpack" ->
                    IF r.vs[1].k # "tuple" THEN Fail(st, "TypeError", r.reads)
                    ELSE IF Len(r.vs[1].items) # Len(stmt.names)
                      THEN Fail(st, "ValueError", r.reads)
                    ELSE Advance(st, BindAll(st.ns, stmt.names, r.vs[1].items, 1),
                                 st.own \cup {stmt.names[i] : i \in 1..Len(stmt.names)},
                                 r.reads)
               [] stmt.s = "setslice" ->
                    LET v == setslice(r.vs[2], SliceStop(r.vs[3]), SliceStop(r.vs[4]),
                                      r.vs[1])
                    IN Store(v, r.reads)
               [] stmt.s = "expr" ->
                    IF ~IsFit(stmt) THEN Advance(st, st.ns, st.own, r.reads)
                    ELSE IF IsSearch(st.ns[stmt.e.f.o.id]) /\ st.status # "fitted"
                      THEN [st EXCEPT !.status = "fitting"]
                    \* fit() changes the estimator in place and returns it
                    ELSE [Advance(st, Bind(st.ns, stmt.e.f.o.id, r.vs[1]), st.own, r.reads)
                            EXCEPT !.status = "running"]
               [] stmt.s = "print" ->
                    [Advance(st, st.ns, st.own, r.reads) EXCEPT !.out = Append(@, r.vs[1])]
      evaluated == EvalSeq(Evaluated(stmt), 1, Ctx(st, inp, sg, py))
  IN Of(evaluated)

\* The statements from st.pc on, until the end of the cell, an exception,
\* or the fit of a search, which runs its candidates before the cell goes on.
RECURSIVE RunFrom(_, _, _, _, _)
RunFrom(body, st, inp, sg, py) ==
  IF st.status \in {"error", "fitting"} THEN st
  ELSE IF st.pc > Len(body) THEN [st EXCEPT !.status = "done"]
  ELSE RunFrom(body, ExecStmt(body[st.pc], st, inp, sg, py), inp, sg, py)

(***************************************************************************)
(* The code cells.  A cell has the notebook nb it belongs to, exec: it     *)
(* carries an execution count (it was run), syntax: its source is not      *)
(* Python (the kernel rejects it as a whole with a SyntaxError), and its   *)
(* statements.  The array literals of a cell are its inputs In(1),         *)
(* In(2).                                                                  *)
(***************************************************************************)
Cell(nb, exec, body) == [nb |-> nb, exec |-> exec, syntax |-> FALSE, body |-> body]

NotPython(nb) == [nb |-> nb, exec |-> FALSE, syntax |-> TRUE, body |-> <<>>]

Str(x) == K([k |-> "str", s |-> x])

IntRow(r) == PyList([j \in 1..Len(r) |-> PyInt(r[j])])
IntMatrix(m) == PyList([i \in 1..Len(m) |-> IntRow(m[i])])
IntTensor(t) == PyList([i \in 1..Len(t) |-> IntMatrix(t[i])])

\* A matrix literal written with floats: the entries n / den.
FloatMatrix(m, den) ==
  PyList([i \in 1..Len(m) |-> PyList([j \in 1..Len(m[i]) |-> PyFloat(Num(m[i][j], den))])])

Shape(e, i) == Ix(At(e, "shape"), i)

Method(o, m, args) == Call(At(o, m), args)

\* A = U . Sigma . V^T, B = U . Sigmak . V^Tk, T = U . Sigmak and
\* T = V^Tk . A read as Python: attribute references and an exclusive or.
Formula(target, e) == <<Assign(target, e)>>

SvdCells ==
  [svd_f1 |-> Cell("svd", FALSE,
     Formula("A", Bin("^", At(At(N("U"), "Sigma"), "V"), N("T")))),
   svd_calc |-> Cell("svd", TRUE, <<
     Import("array", "numpy.array"),
     Import("svd", "scipy.linalg.svd"),
     Assign("A", Call(N("array"), <<In(1)>>)),
     print_(N("A")),
     Unpack(<<"U", "s", "VT">>, Call(N("svd"), <<N("A")>>)),
     print_(N("U")),
     print_(N("s")),
     print_(N("VT"))>>),
   svd_f2 |-> NotPython("svd"),
   svd_f3 |-> NotPython("svd"),
   svd_rect |-> Cell("svd", TRUE, <<
     Import("array", "numpy.array"),
     Import("diag", "numpy.diag"),
     Import("dot", "numpy.dot"),
     Import("zeros", "numpy.zeros"),
     Import("svd", "scipy.linalg.svd"),
     Assign("A", Call(N("array"), <<In(1)>>)),
     print_(N("A")),
     Unpack(<<"U", "s", "VT">>, Call(N("svd"), <<N("A")>>)),
     Assign("Sigma", Call(N("zeros"), <<Tup(<<Shape(N("A"), 0), Shape(N("A"), 1)>>)>>)),
     SetSlice("Sigma", Shape(N("A"), 1), Shape(N("A"), 1), Call(N("diag"), <<N("s")>>)),
     Assign("B", Method(N("U"), "dot", <<Method(N("Sigma"), "dot", <<N("VT")>>)>>)),
     print_(N("B"))>>),
   svd_square |-> Cell("svd", TRUE, <<
     Import("array", "numpy.array"),
     Import("diag", "numpy.diag"),
     Import("dot", "numpy.dot"),
     Import("svd", "scipy.linalg.svd"),
     Assign("A", Call(N("array"), <<In(1)>>)),
     print_(N("A")),
     Unpack(<<"U", "s", "VT">>, Call(N("svd"), <<N("A")>>)),
     Assign("Sigma", Call(N("diag"), <<N("s")>>)),
     Assign("B", Method(N("U"), "dot", <<Method(N("Sigma"), "dot", <<N("VT")>>)>>)),
     print_(N("B"))>>),
   svd_f4 |-> NotPython("svd"),
   svd_f5 |-> NotPython("svd"),
   svd_f6 |-> Cell("svd", FALSE,
     Formula("A", Bin("^", At(At(N("U"), "Sigma"), "V"), N("T")))),
   svd_f7 |-> NotPython("svd"),
   svd_f8 |-> NotPython("svd"),
   svd_pinv |-> Cell("svd", TRUE, <<
     Import("array", "numpy.array"),
     Import("pinv", "numpy.linalg.pinv"),
     Assign("A", Call(N("array"), <<In(1)>>)),
     print_(N("A")),
     Assign("B", Call(N("pinv"), <<N("A")>>)),
     print_(N("B"))>>),
   svd_f9 |-> NotPython("svd"),
   svd_pinvsvd |-> Cell("svd", TRUE, <<
     Import("array", "numpy.array"),
     Import("svd", "numpy.linalg.svd"),
     Import("zeros", "numpy.zeros"),
     Import("diag", "numpy.diag"),
     Assign("A", Call(N("array"), <<In(1)>>)),
     print_(N("A")),
     Unpack(<<"U", "s", "VT">>, Call(N("svd"), <<N("A")>>)),
     Assign("d", Bin("/", K(PyFloat(F(1))), N("s"))),
     Assign("D", Call(N("zeros"), <<At(N("A"), "shape")>>)),
     SetSlice("D", Shape(N("A"), 1), Shape(N("A"), 1), Call(N("diag"), <<N("d")>>)),
     Assign("B", Method(Method(At(N("VT"), "T"), "dot", <<At(N("D"), "T")>>),
                        "dot", <<At(N("U"), "T")>>)),
     print_(N("B"))>>),
   svd_f10 |-> Cell("svd", FALSE,
     Formula("B", Bin("^", At(At(N("U"), "Sigmak"), "V"), N("Tk")))),
   svd_f11 |-> Cell("svd", FALSE, Formula("T", At(N("U"), "Sigmak"))),
   svd_f12 |-> Cell("svd", FALSE, Formula("T", Bin("^", N("V"), At(N("Tk"), "A")))),
   svd_dimred |-> Cell("svd", TRUE, <<
     Import("array", "numpy.array"),
     Import("diag", "numpy.diag"),
     Import("zeros", "numpy.zeros"),
     Import("svd", "scipy.linalg.svd"),
     Assign("A", Call(N("array"), <<In(1)>>)),
     print_(N("A")),
     Unpack(<<"U", "s", "VT">>, Call(N("svd"), <<N("A")>>)),
     Assign("Sigma", Call(N("zeros"), <<Tup(<<Shape(N("A"), 0), Shape(N("A"), 1)>>)>>)),
     SetSlice("Sigma", Shape(N("A"), 0), Shape(N("A"), 0), Call(N("diag"), <<N("s")>>)),
     Assign("n_elements", K(PyInt(n_elements))),
     Assign("Sigma", Sl(N("Sigma"), All, N("n_elements"))),
     Assign("VT", Sl(N("VT"), N("n_elements"), All)),
     Assign("B", Method(N("U"), "dot", <<Method(N("Sigma"), "dot", <<N("VT")>>)>>)),
     print_(N("B")),
     Assign("T", Method(N("U"), "dot", <<N("Sigma")>>)),
     print_(N("T")),
     Assign("T", Method(N("A"), "dot", <<At(N("VT"), "T")>>)),
     print_(N("T"))>>),
   svd_tsvd |-> Cell("svd", TRUE, <<
     Import("array", "numpy.array"),
     Import("TruncatedSVD", "sklearn.decomposition.TruncatedSVD"),
     Assign("A", Call(N("array"), <<In(1)>>)),
     print_(N("A")),
     Assign("svd", CallKw(N("TruncatedSVD"), <<>>, <<(<<"n_components", K(PyInt(2))>>)>>)),
     Expr(Method(N("svd"), "fit", <<N("A")>>)),
     Assign("result", Method(N("svd"), "transform", <<N("A")>>)),
     print_(N("result"))>>)]

TensorCells ==
  [t_f1 |-> NotPython("tensor"),
   t_create |-> Cell("tensor", TRUE, <<
     Import("array", "numpy.array"),
     Assign("T", Call(N("array"), <<In(1)>>)),
     print_(At(N("T"), "shape")),
     print_(N("T"))>>),
   t_add_f |-> NotPython("tensor"),
   t_add |-> Cell("tensor", TRUE, <<
     Import("array", "numpy.array"),
     Assign("A", Call(N("array"), <<In(1)>>)),
     Assign("B", Call(N("array"), <<In(2)>>)),
     Assign("C", Bin("+", N("A"), N("B"))),
     print_(N("C"))>>),
   t_sub_f |-> NotPython("tensor"),
   t_sub |-> Cell("tensor", TRUE, <<
     Import("array", "numpy.array"),
     Assign("A", Call(N("array"), <<In(1)>>)),
     Assign("B", Call(N("array"), <<In(2)>>)),
     Assign("C", Bin("-", N("A"), N("B"))),
     print_(N("C"))>>),
   t_had_f |-> NotPython("tensor"),
   t_had |-> Cell("tensor", TRUE, <<
     Import("array", "numpy.array"),
     Assign("A", Call(N("array"), <<In(1)>>)),
     Assign("B", Call(N("array"), <<In(2)>>)),
     Assign("C", Bin("*", N("A"), N("B"))),
     print_(N("C"))>>),
   t_div_f |-> NotPython("tensor"),
   t_div |-> Cell("tensor", TRUE, <<
     Import("array", "numpy.array"),
     Assign("A", Call(N("array"), <<In(1)>>)),
     Assign("B", Call(N("array"), <<In(2)>>)),
     Assign("C", Bin("/", N("A"), N("B"))),
     print_(N("C"))>>),
   t_prod_f1 |-> NotPython("tensor"),
   \* the kernel removes the indentation of the first line from the cell
   t_prod_f2 |-> Cell("tensor", FALSE, <<
     Expr(Tup(<<Bin("*", N("a1"), N("b1")), Bin("*", N("a1"), N("b2"))>>)),
     Assign("c", Tup(<<Bin("*", N("a2"), N("b1")), Bin("*", N("a2"), N("b2"))>>))>>),
   t_prod_f3 |-> NotPython("tensor"),
   t_prod_f4 |-> Cell("tensor", FALSE, <<
     Expr(Tup(<<Bin("*", N("a11"), N("b11")), Bin("*", N("a11"), N("b12")),
                Bin("*", N("a12"), N("b11")), Bin("*", N("a12"), N("b12"))>>)),
     Expr(Tup(<<Bin("*", N("a11"), N("b21")), Bin("*", N("a11"), N("b22")),
                Bin("*", N("a12"), N("b21")), Bin("*", N("a12"), N("b22"))>>)),
     Assign("C", Tup(<<Bin("*", N("a21"), N("b11")), Bin("*", N("a21"), N("b12")),
                       Bin("*", N("a22"), N("b11")), Bin("*", N("a22"), N("b12"))>>)),
     Expr(Tup(<<Bin("*", N("a21"), N("b21")), Bin("*", N("a21"), N("b22")),
                Bin("*", N("a22"), N("b21")), Bin("*", N("a22"), N("b22"))>>))>>),
   t_prod |-> Cell("tensor", TRUE, <<
     Import("array", "numpy.array"),
     Import("tensordot", "numpy.tensordot"),
     Assign("A", Call(N("array"), <<In(1)>>)),
     Assign("B", Call(N("array"), <<In(2)>>)),
     Assign("C", CallKw(N("tensordot"), <<N("A"), N("B")>>, <<(<<"axes", K(PyInt(0))>>)>>)),
     print_(N("C"))>>)]

SearchSummary(x) == <<
  print_(N(x)),
  print_(At(N(x), "best_score_")),
  print_(At(At(N(x), "best_estimator_"), "alpha"))>>

TuneCells ==
  [tune_grid |-> Cell("tune", TRUE, <<
     ImportModule("np", "numpy"),
     ImportModule("datasets", "sklearn.datasets"),
     Import("Ridge", "sklearn.linear_model.Ridge"),
     Import("GridSearchCV", "sklearn.model_selection.GridSearchCV"),
     Assign("dataset", Call(At(N("datasets"), "load_diabetes"), <<>>)),
     Assign("alphas", Call(At(N("np"), "array"), <<In(1)>>)),
     Assign("model", Call(N("Ridge"), <<>>)),
     Assign("grid", CallKw(N("GridSearchCV"), <<>>,
        <<(<<"estimator", N("model")>>),
          (<<"param_grid", CallKw(N("dict"), <<>>, <<(<<"alpha", N("alphas")>>)>>)>>)>>)),
     Expr(Method(N("grid"), "fit", <<At(N("dataset"), "data"), At(N("dataset"), "target")>>))>>
     \o SearchSummary("grid")),
   tune_random |-> Cell("tune", TRUE, <<
     ImportModule("np", "numpy"),
     Import("sp_rand", "scipy.stats.uniform"),
     ImportModule("datasets", "sklearn.datasets"),
     Import("Ridge", "sklearn.linear_model.Ridge"),
     Import("RandomizedSearchCV", "sklearn.model_selection.RandomizedSearchCV"),
     Assign("dataset", Call(At(N("datasets"), "load_diabetes"), <<>>)),
     Assign("param_grid", Dict(<<(<<"alpha", Call(N("sp_rand"), <<>>)>>)>>)),
     Assign("model", Call(N("Ridge"), <<>>)),
     Assign("rsearch", CallKw(N("RandomizedSearchCV"), <<>>,
        <<(<<"estimator", N("model")>>),
          (<<"param_distributions", N("param_grid")>>),
          (<<"n_iter", K(PyInt(n_iter))>>)>>)),
     Expr(Method(N("rsearch"), "fit", <<At(N("dataset"), "data"), At(N("dataset"), "target")>>))>>
     \o SearchSummary("rsearch"))]

ConvArgs == <<K(PyInt(1)), Tup(<<K(PyInt(2)), K(PyInt(2))>>)>>

ConvKw == <<(<<"activation", Str("relu")>>), (<<"padding", Str("same")>>),
            (<<"input_shape", Tup(<<K(PyInt(10)), K(PyInt(10)), K(PyInt(1))>>)>>)>>

Add(m, layer) == Expr(Method(N(m), "add", <<layer>>))

CnnCells ==
  [cnn_cnn |-> Cell("cnn", FALSE, <<
     Assign("cnn", Call(N("Sequential"), <<>>)),
     Add("cnn", CallKw(N("Conv2D"), ConvArgs, ConvKw)),
     Add("cnn", CallKw(N("MaxPooling2D"), <<>>,
                       <<(<<"pool_size", Tup(<<K(PyInt(2)), K(PyInt(2))>>)>>)>>)),
     Add("cnn", Call(N("Flatten"), <<>>))>>),
   cnn_lstm |-> Cell("cnn", FALSE, <<
     Add("model", Call(N("TimeDistributed"), <<Ellipsis>>)),
     Add("model", Call(N("LSTM"), <<Ellipsis>>)),
     Add("model", Call(N("Dense"), <<Ellipsis>>))>>),
   cnn_def1 |-> Cell("cnn", FALSE, <<
     Assign("cnn", Call(N("Sequential"), <<>>)),
     Add("cnn", Call(N("Conv2D"), <<Ellipsis>>)),
     Add("cnn", Call(N("MaxPooling2D"), <<Ellipsis>>)),
     Add("cnn", Call(N("Flatten"), <<>>)),
     Assign("model", Call(N("Sequential"), <<>>)),
     Add("model", Call(N("TimeDistributed"), <<N("cnn"), Ellipsis>>)),
     Add("model", Call(N("LSTM"), <<Ellipsis>>)),
     Add("model", Call(N("Dense"), <<Ellipsis>>))>>),
   \* line 322 of the cell does not close its parenthesis
   cnn_def2 |-> NotPython("cnn")]

CellIds == DOMAIN SvdCells \cup DOMAIN TensorCells \cup DOMAIN TuneCells \cup DOMAIN CnnCells

Cells ==
  [id \in CellIds |->
     IF id \in DOMAIN SvdCells THEN SvdCells[id]
     ELSE IF id \in DOMAIN TensorCells THEN TensorCells[id]
     ELSE IF id \in DOMAIN TuneCells THEN TuneCells[id]
     ELSE CnnCells[id]]

CellOf(id) == Cells[id]

Notebooks == {"svd", "tensor", "tune", "cnn"}

\* The Python of the kernelspec of each notebook.
Python(nb) == IF nb \in {"svd", "tensor"} THEN 2 ELSE 3

Names ==
  {"array", "svd", "diag", "dot", "zeros", "pinv", "TruncatedSVD", "tensordot",
   "np", "datasets", "Ridge", "GridSearchCV", "RandomizedSearchCV", "sp_rand", "dict",
   "A", "U", "s", "VT", "Sigma", "B", "d", "D", "n_elements", "T", "result", "C",
   "dataset", "alphas", "model", "grid", "param_grid", "rsearch", "cnn",
   "Sequential", "Conv2D", "MaxPooling2D", "Flatten", "TimeDistributed", "LSTM", "Dense",
   "V", "Tk", "c", "a1", "a2", "b1", "b2",
   "a11", "a12", "a21", "a22", "b11", "b12", "b21", "b22"}

(***************************************************************************)
(* The array literals of the cells, as the notebooks write them.           *)
(***************************************************************************)
Tensor3 ==
  IntTensor(<<
    <<(<<1, 2, 3>>), (<<4, 5, 6>>), (<<7, 8, 9>>)>>,
    <<(<<11, 12, 13>>), (<<14, 15, 16>>), (<<17, 18, 19>>)>>,
    <<(<<21, 22, 23>>), (<<24, 25, 26>>), (<<27, 28, 29>>)>> >>)

Wide3x10 ==
  IntMatrix(<<
    <<1, 2, 3, 4, 5, 6, 7, 8, 9, 10>>,
    <<11, 12, 13, 14, 15, 16, 17, 18, 19, 20>>,
    <<21, 22, 23, 24, 25, 26, 27, 28, 29, 30>> >>)

Tall3x2 == IntMatrix(<< <<1, 2>>, <<3, 4>>, <<5, 6>> >>)

Literal(id) ==
  CASE id \in {"svd_calc", "svd_rect"} -> <<Tall3x2>>
    [] id = "svd_square" -> <<IntMatrix(<< <<1, 2, 3>>, <<4, 5, 6>>, <<7, 8, 9>> >>)>>
    [] id \in {"svd_pinv", "svd_pinvsvd"} ->
         <<FloatMatrix(<< <<1, 2>>, <<3, 4>>, <<5, 6>>, <<7, 8>> >>, 10)>>
    [] id \in {"svd_dimred", "svd_tsvd"} -> <<Wide3x10>>
    [] id = "t_create" -> <<Tensor3>>
    [] id \in {"t_add", "t_sub", "t_had", "t_div"} -> <<Tensor3, Tensor3>>
    [] id = "t_prod" -> <<IntRow(<<1, 2>>), IntRow(<<3, 4>>)>>
    [] id = "tune_grid" ->
         <<PyList(<<PyInt(1), PyFloat(Num(1, 10)), PyFloat(Num(1, 100)),
                    PyFloat(Num(1, 1000)), PyFloat(Num(1, 10000)), PyInt(0)>>)>>
    [] OTHER -> <<>>

(***************************************************************************)
(* The kernel.                                                             *)
(***************************************************************************)
VARIABLES
  nb,       \* the notebook the kernel belongs to
  ns,       \* the namespace: name -> the value bound to it, or Unbound
  cell,     \* the cell running or last run
  pc,       \* the next statement of that cell
  status,   \* "idle" (fresh kernel), "fitting", "done", "error"
  out,      \* what the cell has printed
  err,      \* the exception that ended the cell
  own,      \* the names the cell has bound in this run
  ext,      \* the names the cell looked up without having bound them
  frame,    \* while fitting: the literals and sign choice of the cell
  lit,      \* the matrix drawn for the literal of the cell, <<>>: as written
  runs,     \* the number of cells run since the kernel started
  started,  \* while fitting: the number of fit tasks dispatched
  running   \* while fitting: the fit tasks in progress

vars == <<nb, ns, cell, pc, status, out, err, own, ext, frame, lit, runs, started, running>>

EmptyNs == [x \in Names |-> Unbound]

Start(namespace) ==
  [ns |-> namespace, pc |-> 1, status |-> "running", out |-> <<>>, err |-> "none",
   own |-> {}, ext |-> {}]

Init ==
  /\ nb \in Notebooks
  /\ ns = EmptyNs
  /\ cell = "none"
  /\ pc = 1
  /\ status = "idle"
  /\ out = <<>>
  /\ err = "none"
  /\ own = {}
  /\ ext = {}
  /\ frame = <<>>
  /\ lit = <<>>
  /\ runs = 0
  /\ started = 0
  /\ running = {}

\* A variant of the kernel that gives every cell a namespace of its own.
RunCellIn_fresh(id, namespace, inp, sg) ==
  IF CellOf(id).syntax
    THEN [Start(EmptyNs) EXCEPT !.status = "error", !.err = "SyntaxError"]
    ELSE RunFrom(CellOf(id).body, Start(EmptyNs), inp, sg, Python(CellOf(id).nb))

\* The outcome of running the cell id in the namespace: compiled as a
\* whole first, so that a cell that is not Python executes nothing.
RunCellIn(id, namespace, inp, sg) ==
  IF CellOf(id).syntax
    THEN [Start(namespace) EXCEPT !.status = "error", !.err = "SyntaxError"]
    ELSE RunFrom(CellOf(id).body, Start(namespace), inp, sg, Python(CellOf(id).nb))

Become(st, id, inp, sg) ==
  /\ ns' = st.ns
  /\ cell' = id
  /\ pc' = st.pc
  /\ status' = st.status
  /\ out' = st.out
  /\ err' = st.err
  /\ own' = st.own
  /\ ext' = st.ext
  /\ frame' = IF st.status = "fitting" THEN <<inp, sg>> ELSE <<>>
  /\ started' = 0
  /\ running' = {}
  /\ UNCHANGED <<nb, lit>>

\* Shift-Enter on the cell id: the kernel runs one cell at a time.
RunCell(id, inp, sg) ==
  /\ status # "fitting"
  /\ CellOf(id).nb = nb
  /\ runs < MaxRuns
  /\ runs' = runs + 1
  /\ Become(RunCellIn(id, ns, inp, sg), id, inp, sg)

\* The search being fitted and its tasks: the candidates, each of which is
\* cross-validated as one task.
Search == ns[CellOf(cell).body[pc].e.f.o.id]

Tasks == Search.candidates

\* The next fit task is handed to a worker, if one of the n_jobs is free.
Dispatch ==
  /\ status = "fitting"
  /\ started < Tasks
  /\ Cardinality(running) < Search.n_jobs
  /\ started' = started + 1
  /\ running' = running \cup {started + 1}
  /\ UNCHANGED <<nb, ns, cell, pc, status, out, err, own, ext, frame, lit, runs>>

\* A fit task ends.
Complete(t) ==
  /\ status = "fitting"
  /\ t \in running
  /\ running' = running \ {t}
  /\ UNCHANGED <<nb, ns, cell, pc, status, out, err, own, ext, frame, lit, runs, started>>

\* All tasks have ended: fit() returns and the cell goes on.
FinishFit ==
  /\ status = "fitting"
  /\ started = Tasks
  /\ running = {}
  /\ Become(RunFrom(CellOf(cell).body,
                    [ns |-> ns, pc |-> pc, status |-> "fitted", out |-> out, err |-> err,
                     own |-> own, ext |-> ext],
                    frame[1], frame[2], Python(nb)),
            cell, frame[1], frame[2])
  /\ UNCHANGED runs

\* The sign choices of the decompositions of a cell with literals inp.
Signs(inp) == IF Len(inp) = 0 THEN {<<>>} ELSE SignChoices(array(inp[1]))

\* The cells as the notebooks have them, run in any order.
WrittenSigns == [id \in CellIds |-> Signs(Literal(id))]

RunAny ==
  \E id \in {i \in CellIds : CellOf(i).nb = nb} : \E sg \in WrittenSigns[id] :
     RunCell(id, Literal(id), sg)

Finish == \E t \in running : Complete(t)

Next == RunAny \/ Dispatch \/ Finish \/ FinishFit

Spec == Init /\ [][Next]_vars

(***************************************************************************)
(* The linear-algebra cells on drawn matrices: each cell of the SVD        *)
(* notebook that computes something, run in a fresh kernel with its        *)
(* literal replaced by any matrix of at most MaxSize entries that has an   *)
(* exact decomposition, its non-zero entries drawn from Vals.              *)
(***************************************************************************)
LinAlgCells ==
  {"svd_calc", "svd_rect", "svd_square", "svd_pinv", "svd_pinvsvd", "svd_dimred", "svd_tsvd"}

\* A negative and a positive entry, of different magnitudes.
Vals == {-2, 1}

Shapes == {p \in (1..MaxSize) \X (1..MaxSize) : p[1] * p[2] <= MaxSize}

\* A row is empty or has one entry <<column, value>>; no two in a column.
Placements(m, n) ==
  {f \in [1..m -> {<<0, 1>>} \cup ((1..n) \X Vals)] :
     \A i, j \in 1..m : i # j /\ f[i][1] # 0 => f[i][1] # f[j][1]}

Drawn ==
  UNION {{[i \in 1..p[1] |-> [j \in 1..p[2] |-> IF f[i][1] = j THEN f[i][2] ELSE 0]] :
            f \in Placements(p[1], p[2])} : p \in Shapes}

\* The pseudoinverse cells write their literal with floats.
AsLiteral(id, m) ==
  IF id \in {"svd_pinv", "svd_pinvsvd"} THEN <<FloatMatrix(m, 1)>> ELSE <<IntMatrix(m)>>

RunDrawn ==
  /\ status = "idle"
  /\ \E id \in LinAlgCells : \E sg \in Signs(AsLiteral(id, lit)) :
       RunCell(id, AsLiteral(id, lit), sg)

InitLA ==
  /\ nb = "svd"
  /\ ns = EmptyNs
  /\ cell = "none"
  /\ pc = 1
  /\ status = "idle"
  /\ out = <<>>
  /\ err = "none"
  /\ own = {}
  /\ ext = {}
  /\ frame = <<>>
  /\ lit \in Drawn
  /\ runs = 0
  /\ started = 0
  /\ running = {}

NextLA == RunDrawn

SpecLA == InitLA /\ [][NextLA]_vars

(***************************************************************************)
(* The element-wise cells of the tensor notebook on drawn tensors: each    *)
(* cell run in a fresh kernel with its two literals replaced by any two    *)
(* integer tensors of the same shape, of at most MaxElems elements drawn   *)
(* from TensorVals.                                                        *)
(***************************************************************************)
ElementwiseCells == {"t_add", "t_sub", "t_had", "t_div"}

\* Zero, and two values of different signs neither of which divides the
\* other.
TensorVals == {-2, 0, 3}

TensorShapes ==
  {p \in (1..MaxElems) \X (1..MaxElems) \X (1..MaxElems) : p[1] * p[2] * p[3] <= MaxElems}

TensorsOf(p) == [1..p[1] -> [1..p[2] -> [1..p[3] -> TensorVals]]]

DrawnPairs == UNION {TensorsOf(p) \X TensorsOf(p) : p \in TensorShapes}

RunDrawnPair ==
  /\ status = "idle"
  /\ \E id \in ElementwiseCells :
       RunCell(id, <<IntTensor(lit[1]), IntTensor(lit[2])>>, <<>>)

InitT ==
  /\ nb = "tensor"
  /\ ns = EmptyNs
  /\ cell = "none"
  /\ pc = 1
  /\ status = "idle"
  /\ out = <<>>
  /\ err = "none"
  /\ own = {}
  /\ ext = {}
  /\ frame = <<>>
  /\ lit \in DrawnPairs
  /\ runs = 0
  /\ started = 0
  /\ running = {}

NextT == RunDrawnPair

SpecT == InitT /\ [][NextT]_vars

(***************************************************************************)
(* Properties.                                                             *)
(***************************************************************************)
Finished == status \in {"done", "error"}

Bound(x) == ns[x].k # "unbound"

\* The run of a cell alone in a fresh kernel, with the literals the
\* notebook writes, the fit of a search having run to its end.
AloneRun(id) ==
  LET Resumed(st) ==
        IF st.status # "fitting" THEN st
        ELSE RunFrom(CellOf(id).body, [st EXCEPT !.status = "fitted"], Literal(id), <<>>,
                     Python(CellOf(id).nb))
      first == RunCellIn(id, EmptyNs, Literal(id), <<>>)
  IN Resumed(first)

Alone == [id \in CellIds |-> AloneRun(id)]

\* C1 as the specification states it: whatever ran before it, a finished
\* cell has read no name that it has not itself imported or assigned, and
\* has printed what it prints when run alone in a fresh kernel.
C1_EveryCellIndependent == Finished => ext = {} /\ out = Alone[cell].out

\* C1, amended: the cells that carry an execution count are independent of
\* what ran before them: such a cell reads no name that it has not itself
\* imported or assigned, ends without an exception and prints what it
\* prints alone in a fresh kernel.
C1_ExecutedCellsIndependent ==
  Finished /\ CellOf(cell).exec =>
    /\ ext = {}
    /\ status = "done"
    /\ out = Alone[cell].out

\* An executed cell has run to its end in a kernel where an earlier cell
\* has left names that this cell has not bound.
C1_RanAfterAnother ==
  /\ runs = 2
  /\ CellOf(cell).exec
  /\ status = "done"
  /\ Len(out) > 0
  /\ \E x \in Names : Bound(x) /\ x \notin own

\* C2 as the specification states it: once a cell has finished, none of
\* the names it bound is bound any longer.
C2_NothingOutlivesCell == Finished => \A x \in own : ~Bound(x)

\* C2, amended: a value a cell binds stays bound in the namespace of the
\* kernel after the cell has finished, unchanged until a later cell binds
\* the same name again, and the later cells read it.
C2_BindingsPersist ==
  [][\A x \in Names : Bound(x) /\ x \notin own' => ns'[x] = ns[x]]_vars

\* A second cell has read a name that only the cell before it has bound.
C2_LaterCellReads ==
  /\ runs = 2
  /\ Finished
  /\ \E x \in ext \ own : Bound(x)

RowsOfA == Rows(ns["A"])

ColsOfA == Cols(ns["A"])

\* C3: in the rectangular reconstruction cell on a matrix with at least as
\* many rows as columns (the 3 x 2 example), and in the square one on a
\* square matrix (the 3 x 3 example), B = U.dot(Sigma.dot(VT)) equals A
\* element by element.
C3_RoundTrip ==
  /\ cell = "svd_rect" /\ Finished /\ Len(lit) >= Len(lit[1]) =>
       status = "done" /\ ns["B"].shape = ns["A"].shape /\ ns["B"].data = ns["A"].data
  /\ cell = "svd_square" /\ Finished /\ Len(lit) = Len(lit[1]) =>
       status = "done" /\ ns["B"].shape = ns["A"].shape /\ ns["B"].data = ns["A"].data

\* The rectangular cell has rebuilt a 3 x 2 matrix of rank 2 from factors
\* one of whose pairs of singular vectors has the negative sign.
C3_Rebuilt3x2 ==
  /\ cell = "svd_rect"
  /\ status = "done"
  /\ ns["A"].shape = <<3, 2>>
  /\ Cardinality(NonZero(ns["A"])) = 2
  /\ \E i \in 1..3 : \E j \in 1..3 : ns["U"].data[i][j] = F(-1)
  /\ ns["B"].data = ns["A"].data

\* The names the statement binds.
Targets(stmt) ==
  CASE stmt.s \in {"import", "module", "assign"} -> {stmt.name}
    [] stmt.s = "unpack" -> {stmt.names[i] : i \in 1..Len(stmt.names)}
    [] OTHER -> {}

BoundBefore(body, p) == UNION {Targets(body[i]) : i \in 1..(p - 1)}

PrintsBefore(body, p) == Cardinality({i \in 1..(p - 1) : body[i].s = "print"})

\* C4: an exception raised by a statement of a cell is not handled: the
\* cell ends at that statement, having bound and printed only what the
\* statements before it bind and print.
C4_ErrorEndsCell ==
  err # "none" =>
    /\ status = "error"
    /\ pc \in 1..Len(CellOf(cell).body)
    /\ own = BoundBefore(CellOf(cell).body, pc)
    /\ Len(out) = PrintsBefore(CellOf(cell).body, pc)
    /\ Len(out) < PrintsBefore(CellOf(cell).body, Len(CellOf(cell).body) + 1)

\* The slice assignment of the rectangular cell has raised on a matrix with
\* fewer rows than columns, after the print of A and before the print of B.
C4_SliceAssignmentRaised ==
  /\ cell = "svd_rect"
  /\ err = "ValueError"
  /\ CellOf(cell).body[pc].s = "setslice"
  /\ Len(out) = 1
  /\ ~Bound("B")

\* C5: the searches run with n_jobs=1: never are two candidates being
\* evaluated at the same time.
C5_OneCandidateAtATime == Cardinality(running) <= 1

\* A search is evaluating a candidate that is not its first.
C5_SecondCandidateRunning ==
  /\ status = "fitting"
  /\ Cardinality(running) = 1
  /\ started > 1

\* The entry (i, j) of U . diag(s) . VT, for the factors bound in the cell.
Recomposed(i, j) ==
  SumTo([l \in 1..Len(ns["s"].data) |->
           FMul(ns["U"].data[i][l], FMul(ns["s"].data[l], ns["VT"].data[l][j]))],
        Len(ns["s"].data))

\* C6: svd(A) of an m x n matrix returns U of shape m x m, the singular
\* values as a vector s of length min(m, n), and VT of shape n x n, which
\* is V transposed: A[i][j] is the sum over l of U[i][l] * s[l] * VT[l][j].
C6_FactorShapes ==
  cell = "svd_calc" /\ Finished =>
    /\ status = "done"
    /\ ns["U"].shape = <<RowsOfA, RowsOfA>>
    /\ ns["s"].shape = <<Min(RowsOfA, ColsOfA)>>
    /\ ns["VT"].shape = <<ColsOfA, ColsOfA>>
    /\ \A i \in 1..RowsOfA : \A j \in 1..ColsOfA : Recomposed(i, j) = ns["A"].data[i][j]

\* The decomposition cell has factored a 3 x 2 matrix of rank 2.
C6_Factored3x2 ==
  /\ cell = "svd_calc"
  /\ status = "done"
  /\ ns["A"].shape = <<3, 2>>
  /\ Cardinality(NonZero(ns["A"])) = 2
  /\ ns["U"].shape = <<3, 3>>
  /\ ns["s"].shape = <<2>>
  /\ ns["VT"].shape = <<2, 2>>

\* C7: diag(s) of the singular values of the m x n matrix A is a square
\* matrix of size m x m (seen where a cell binds diag(s) to a name: Sigma of
\* the square reconstruction cell).
C7_DiagIsRowsByRows ==
  cell = "svd_square" /\ Bound("Sigma") => ns["Sigma"].shape = <<RowsOfA, RowsOfA>>

\* D[i][i] of the pseudoinverse cell, as the text of the notebook has it.
ReciprocalOfNonZero(x) == IF x = F(0) THEN F(0) ELSE FDiv(F(1), x)

FullColumnRank == Cardinality(NonZero(ns["A"])) = ColsOfA

\* C8: the pseudoinverse the cell computes from the SVD, B =
\* VT.T.dot(D.T).dot(U.T), is the one pinv(A) returns, for a matrix of full
\* column rank (the 4 x 2 example), whichever signs svd and pinv choose for
\* the singular vectors.
C8_ManualMatchesPinv ==
  cell = "svd_pinvsvd" /\ Finished /\ FullColumnRank =>
    /\ status = "done"
    /\ \A sg \in SignChoices(ns["A"]) :
         /\ ns["B"].shape = pinv(ns["A"], sg).shape
         /\ ns["B"].data = pinv(ns["A"], sg).data

\* The cell has computed the pseudoinverse of a 4 x 2 matrix of rank 2
\* with a singular value other than 1.
C8_Inverted4x2 ==
  /\ cell = "svd_pinvsvd"
  /\ status = "done"
  /\ ns["A"].shape = <<4, 2>>
  /\ FullColumnRank
  /\ ns["B"].shape = <<2, 4>>
  /\ \E i \in 1..2 : \E j \in 1..4 : ns["B"].data[i][j] = Num(-1, 2)

\* C9: D holds the reciprocal of every non-zero singular value and zero for
\* every singular value that is zero: no division by zero takes place.
C9_ZeroStaysZero ==
  cell = "svd_pinvsvd" /\ Bound("D") /\ pc > 10 =>
    \A i \in 1..Len(ns["s"].data) : ns["D"].data[i][i] = ReciprocalOfNonZero(ns["s"].data[i])

\* C10: in the dimensionality-reduction cell on a matrix with at least
\* n_elements columns and no more rows than columns (the 3 x 10 example),
\* the two transforms printed, U.dot(Sigma) and A.dot(VT.T), are both
\* m x n_elements and equal element by element.
C10_TransformsAgree ==
  cell = "svd_dimred" /\ Finished /\ RowsOfA <= ColsOfA /\ ColsOfA >= n_elements =>
    /\ status = "done"
    /\ out[3].shape = <<RowsOfA, n_elements>>
    /\ out[4].shape = <<RowsOfA, n_elements>>
    /\ out[3].data = out[4].data

\* The cell has reduced a 2 x 4 matrix of rank 2 to two columns.
C10_Reduced2x4 ==
  /\ cell = "svd_dimred"
  /\ status = "done"
  /\ ns["A"].shape = <<2, 4>>
  /\ Cardinality(NonZero(ns["A"])) = 2
  /\ ns["Sigma"].shape = <<2, 2>>
  /\ ns["VT"].shape = <<2, 4>>
  /\ out[4].shape = <<2, 2>>
  /\ \E i \in 1..2 : \E j \in 1..2 : out[4].data[i][j] \notin {F(0), Unk}

\* C11: the second transform the dimensionality-reduction cell prints is
\* the product V^Tk . A of the truncated VT (k x n) and A (m x n), which is
\* conformable.
C11_TransformIsVTkDotA ==
  cell = "svd_dimred" /\ status = "done" =>
    /\ ~IsRaise(dot(ns["VT"], ns["A"]))
    /\ out[4] = dot(ns["VT"], ns["A"])

Magnitude(x) == IF x.k = "num" THEN Num(Abs(x.n), x.d) ELSE x

\* The non-zero singular values of the drawn matrix are pairwise distinct:
\* the singular vectors are then determined up to their sign.
DistinctSingularValues ==
  \A p, q \in NonZero(ns["A"]) :
    p # q => Abs(ns["A"].data[p[1]][p[2]].n) # Abs(ns["A"].data[q[1]][q[2]].n)

\* The dimensionality-reduction cell alone on the drawn matrix, svd choosing
\* the signs sg.
ManualRun(sg) == RunCellIn("svd_dimred", EmptyNs, <<IntMatrix(lit)>>, sg)

SameMagnitudes(result, T) ==
  /\ result.shape = T.shape
  /\ \A i \in 1..Rows(T) : \A j \in 1..Cols(T) :
       Magnitude(result.data[i][j]) = Magnitude(T.data[i][j])

\* C12: on a matrix with no more rows than columns and at least two
\* columns (the 3 x 10 example), the result of TruncatedSVD(n_components=2)
\* fitted on A and applied to A is m x 2 and every element has the absolute
\* value of the corresponding element of the transform T the
\* dimensionality-reduction cell computes, whichever signs the two
\* decompositions choose.
C12_MatchesManualUpToSign ==
  cell = "svd_tsvd" /\ Finished /\ RowsOfA <= ColsOfA /\ ColsOfA >= n_elements
    /\ DistinctSingularValues =>
      /\ status = "done"
      /\ ns["result"].shape = <<RowsOfA, n_elements>>
      /\ \A sg \in SignChoices(ns["A"]) :
           /\ ManualRun(sg).status = "done"
           /\ SameMagnitudes(ns["result"], ManualRun(sg).out[4])

\* TruncatedSVD has transformed a 3 x 3 matrix of rank 2 into a 3 x 2
\* result, an element of which has the sign opposite to the one in a
\* manually calculated T.
C12_Transformed3x3 ==
  /\ cell = "svd_tsvd"
  /\ status = "done"
  /\ ns["A"].shape = <<3, 3>>
  /\ Cardinality(NonZero(ns["A"])) = 2
  /\ DistinctSingularValues
  /\ ns["result"].shape = <<3, 2>>
  /\ \E sg \in SignChoices(ns["A"]) : \E i \in 1..3 : \E j \in 1..2 :
       /\ ns["result"].data[i][j] # ManualRun(sg).out[4].data[i][j]
       /\ Magnitude(ns["result"].data[i][j]) = Magnitude(ManualRun(sg).out[4].data[i][j])

Indices(a) == (1..a.shape[1]) \X (1..a.shape[2]) \X (1..a.shape[3])

Elem(a, p) == a.data[p[1]][p[2]][p[3]]

Given(i, p) == lit[i][p[1]][p[2]][p[3]]

\* C13: C = A + B of two tensors of the same dimensions has those
\* dimensions and C[i,j,k] = A[i,j,k] + B[i,j,k] at every index; A and B
\* are as they were given.
C13_ElementwiseSum ==
  cell = "t_add" /\ Finished =>
    /\ status = "done"
    /\ ns["C"].shape = ns["A"].shape
    /\ ns["C"].shape = ns["B"].shape
    /\ out = <<ns["C"]>>
    /\ \A p \in Indices(ns["C"]) :
         /\ Elem(ns["C"], p) = F(Given(1, p) + Given(2, p))
         /\ Elem(ns["A"], p) = F(Given(1, p))
         /\ Elem(ns["B"], p) = F(Given(2, p))

\* The addition cell has added two different tensors of two elements.
C13_AddedDifferentTensors ==
  /\ cell = "t_add"
  /\ status = "done"
  /\ ns["A"].shape = <<1, 1, 2>>
  /\ ns["A"] # ns["B"]
  /\ Elem(ns["C"], <<1, 1, 1>>) = F(1)
  /\ Elem(ns["C"], <<1, 1, 2>>) = F(-4)

\* C14: the subtraction cell prints the first tensor subtracted from the
\* second: B[i,j,k] - A[i,j,k] at every index.
C14_SecondMinusFirst ==
  cell = "t_sub" /\ status = "done" =>
    \A p \in Indices(out[1]) : Elem(out[1], p) = F(Given(2, p) - Given(1, p))

NoZeroDivisor == \A p \in Indices(ns["B"]) : Given(2, p) # 0

IsFloorOf(q, a, b) ==
  IF b > 0 THEN q * b <= a /\ a < (q + 1) * b
  ELSE q * b >= a /\ a > (q + 1) * b

====
